---------------------------- MODULE Spec2Model ----------------------------
(***************************************************************************)
(* A model of src/src/parser.js: the propositional-logic parser            *)
(* (tokenise, split_by_parens, combine_unary, process_operators, reformat, *)
(* parse) and the two consumers of its AST (evaluate, create_truth_table). *)
(*                                                                         *)
(* Representation.  A character is a TLA+ string; the six connective       *)
(* glyphs are written by their code points ("U+2228" is the OR glyph).  A  *)
(* JavaScript string is a sequence of characters.  A value of the grouped  *)
(* structure is a record tagged by k: a token (k = "tok"), an array        *)
(* (k = "arr"), the value undefined (k = "undef"), or a thrown exception   *)
(* (k = "throw") propagating out of a call.  A JavaScript value that       *)
(* evaluate can return is a string: "true", "false", or the name of an     *)
(* object inherited from Object.prototype.                                 *)
(***************************************************************************)
EXTENDS Integers, Sequences, FiniteSets, TLC

VARIABLES text, pc, pos, tokens, tree, depth, pass, error, ast, ctx, value, table

vars == <<text, pc, pos, tokens, tree, depth, pass, error, ast, ctx, value, table>>

(***************************************************************************)
(* Characters and strings                                                  *)
(***************************************************************************)
OR == "U+2228"
AND == "U+2227"
NOT == "U+00AC"
IMPLIES == "U+2192"
IFF == "U+2194"
CONVERSE == "U+2190"
OPEN == "("
CLOSE == ")"

\* const BASE_OPERATORS = [...]
BASE_OPERATORS == {OR, AND, NOT, IMPLIES, IFF, CONVERSE, OPEN, CLOSE}

\* the characters /\s/ matches, as far as the inputs of the model use them
Whitespace == {" "}

\* the letters of the model's inputs: <<upper case, lower case>>
LetterPairs ==
  { <<"A", "a">>, <<"B", "b">>, <<"C", "c">>, <<"D", "d">>, <<"E",
    "e">>, <<"F", "f">>, <<"G", "g">>, <<"H", "h">>, <<"I", "i">>,
    <<"J", "j">>, <<"K", "k">>, <<"L", "l">>, <<"M", "m">>, <<"N",
    "n">>, <<"O", "o">>, <<"P", "p">>, <<"Q", "q">>, <<"R", "r">>,
    <<"S", "s">>, <<"T", "t">>, <<"U", "u">>, <<"V", "v">>, <<"W",
    "w">>, <<"X", "x">>, <<"Y", "y">>, <<"Z", "z">> }

\* String.prototype.toLowerCase, one character
LowerChar(c) ==
  IF \E p \in LetterPairs : p[1] = c
    THEN (CHOOSE p \in LetterPairs : p[1] = c)[2]
    ELSE c

\* String.prototype.toUpperCase, one character (used to spell the inputs)
UpperChar(c) ==
  IF \E p \in LetterPairs : p[2] = c
    THEN (CHOOSE p \in LetterPairs : p[2] = c)[1]
    ELSE c

\* tok.str.toLowerCase()
ToLowerCase(s) == [i \in 1..Len(s) |-> LowerChar(s[i])]

\* const EXTRA_OPERATORS = { or: ..., and: ..., ... }: the pairs <<key, glyph>>
EXTRA_OPERATORS ==
  { << <<"o", "r">>, OR >>,
    << <<"a", "n", "d">>, AND >>,
    << <<"n", "o", "t">>, NOT >>,
    << <<"i", "m", "p", "l", "i", "e", "s">>, IMPLIES >>,
    << <<"i", "m", "p", "l">>, IMPLIES >>,
    << <<"-", ">">>, IMPLIES >>,
    << <<"<", "-", ">">>, IFF >>,
    << <<"=", "=">>, IFF >>,
    << <<"<", "-">>, CONVERSE >> }

\* Object.keys(EXTRA_OPERATORS)
ExtraKeys == { p[1] : p \in EXTRA_OPERATORS }

\* EXTRA_OPERATORS[key]
ExtraLookup(key) == (CHOOSE p \in EXTRA_OPERATORS : p[1] = key)[2]

(***************************************************************************)
(* Values of the grouped structure                                         *)
(***************************************************************************)
\* { type: 'op' | 'str', str } and { type: 'sp' }
Tok(type, str) == [k |-> "tok", type |-> type, str |-> str]
Arr(items) == [k |-> "arr", items |-> items]
Undefined == [k |-> "undef"]
Throw(msg) == [k |-> "throw", msg |-> msg]
IsArray(v) == v.k = "arr"
IsThrow(v) == v.k = "throw"
\* node.type == 'op' && node.str == glyph, for a node that is no array
IsOp(v, glyph) == v.k = "tok" /\ v.type = "op" /\ v.str = <<glyph>>

\* what reading a property of undefined throws
TypeError == "TypeError"

(***************************************************************************)
(* tokenise                                                                *)
(***************************************************************************)
\* TokeniseStep with the merge of consecutive identifier characters left out
TokeniseStepNoMerge(toks, char) ==
  LET n == Len(toks) IN
  IF char \in BASE_OPERATORS
    THEN Append(toks, Tok("op", <<char>>))
  ELSE IF char \in Whitespace
    THEN IF n = 0 \/ toks[n].type # "sp"
           THEN Append(toks, Tok("sp", <<>>))
           ELSE toks
  ELSE Append(toks, Tok("str", <<char>>))

\* one iteration of the loop over the characters of the input
TokeniseStep(toks, char) ==
  LET n == Len(toks) IN
  IF char \in BASE_OPERATORS
    THEN Append(toks, Tok("op", <<char>>))
  ELSE IF char \in Whitespace
    THEN IF n = 0 \/ toks[n].type # "sp"
           THEN Append(toks, Tok("sp", <<>>))
           ELSE toks
  ELSE IF n # 0 /\ toks[n].type = "str"
         THEN [toks EXCEPT ![n].str = @ \o <<char>>]
         ELSE Append(toks, Tok("str", <<char>>))

\* MapAlias with the lookup made on tok.str as written, not in lower case
MapAliasCaseSensitive(tok) ==
  IF tok.type = "str" /\ tok.str \in ExtraKeys
    THEN Tok("op", <<ExtraLookup(tok.str)>>)
    ELSE tok

\* the map callback of the return statement
MapAlias(tok) ==
  IF tok.type = "str" /\ ToLowerCase(tok.str) \in ExtraKeys
    THEN Tok("op", <<ExtraLookup(ToLowerCase(tok.str))>>)
    ELSE tok

\* return tokens.filter(...).map(...)
TokeniseReturnValue(toks) ==
  LET kept == SelectSeq(toks, LAMBDA t : t.type # "sp")
  IN  [i \in 1..Len(kept) |-> MapAlias(kept[i])]

RECURSIVE TokeniseLoop(_, _, _)
TokeniseLoop(input, i, toks) ==
  IF i > Len(input) THEN toks
  ELSE TokeniseLoop(input, i + 1, TokeniseStep(toks, input[i]))

tokenise(input) == TokeniseReturnValue(TokeniseLoop(input, 1, <<>>))

(***************************************************************************)
(* split_by_parens                                                         *)
(***************************************************************************)
RECURSIVE push_with_depth(_, _, _)
\* the array `t` after push_with_depth(t, obj, d), or the exception it throws
push_with_depth(t, obj, d) ==
  IF d = 0 THEN Arr(Append(t.items, obj))
  ELSE IF d < 0 THEN Throw("cannot push with negative depth")
  ELSE LET n == Len(t.items)
           t1 == IF n = 0 \/ ~IsArray(t.items[n])
                   THEN Arr(Append(t.items, Arr(<<>>)))
                   ELSE t
           m == Len(t1.items)
           sub == push_with_depth(t1.items[m], obj, d - 1)
       IN  IF IsThrow(sub) THEN sub
           ELSE Arr([t1.items EXCEPT ![m] = sub])

RECURSIVE Descend(_, _)
\* while (tree.length == 1 && Array.isArray(tree[0])) { tree = tree[0]; depth--; }
Descend(t, d) ==
  IF Len(t.items) = 1 /\ IsArray(t.items[1])
    THEN Descend(t.items[1], d - 1)
    ELSE [tree |-> t, depth |-> d]

RECURSIVE WrapUp(_, _)
\* while (depth < 0) { tree = [tree]; depth++; }
WrapUp(t, d) ==
  IF d < 0 THEN WrapUp(Arr(<<t>>), d + 1)
  ELSE [tree |-> t, depth |-> d]

\* the callback of tokens.forEach: the tree and depth after `token`, or the
\* exception push_with_depth throws
SplitStep(t, d, token) ==
  IF IsOp(token, OPEN) THEN Descend(t, d + 1)
  ELSE IF IsOp(token, CLOSE) THEN WrapUp(t, d - 1)
  ELSE LET r == push_with_depth(t, token, d)
       IN  IF IsThrow(r) THEN r ELSE [tree |-> r, depth |-> d]

RECURSIVE SplitLoop(_, _, _, _)
SplitLoop(toks, i, t, d) ==
  IF i > Len(toks) THEN t
  ELSE LET r == SplitStep(t, d, toks[i])
       IN  IF "k" \in DOMAIN r THEN r
           ELSE SplitLoop(toks, i + 1, r.tree, r.depth)

\* the array split_by_parens returns, or the exception it throws
split_by_parens(toks) == SplitLoop(toks, 1, Arr(<<>>), 0)

(***************************************************************************)
(* combine_unary                                                           *)
(***************************************************************************)
RECURSIVE combine_unary(_)
RECURSIVE CombineLoop(_, _, _)
\* tree.reverse(); tree.forEach(...): the elements are visited last to first
\* and `result` grows at its front.  result.shift() of an empty array is
\* undefined.
CombineLoop(items, i, result) ==
  IF i = 0 THEN result
  ELSE LET node == items[i] IN
       IF IsArray(node)
         THEN CombineLoop(items, i - 1, <<combine_unary(node)>> \o result)
       ELSE IF IsOp(node, NOT)
         THEN CombineLoop(items, i - 1,
                IF result = <<>>
                  THEN << Arr(<<node, Undefined>>) >>
                  ELSE << Arr(<<node, Head(result)>>) >> \o Tail(result))
       ELSE CombineLoop(items, i - 1, <<node>> \o result)

\* combine_unary with the fusion of NOT and its operand left out
combine_unary_unfused(t) == t

combine_unary(t) == Arr(CombineLoop(t.items, Len(t.items), <<>>))

(***************************************************************************)
(* process_operators                                                       *)
(***************************************************************************)
RECURSIVE process_operators(_, _)
RECURSIVE ProcessLoop(_, _, _, _)
\* for (let i = tree.length - 1; i >= 0; i--): `i` is 1-based here.  Reading
\* node.type of an undefined node throws a TypeError.
ProcessLoop(items, i, rhs, ops) ==
  IF i = 0 THEN Arr(rhs)
  ELSE LET node == items[i] IN
       IF IsArray(node)
         THEN LET sub == process_operators(node, ops)
              IN  IF IsThrow(sub) THEN sub
                  ELSE ProcessLoop(items, i - 1, <<sub>> \o rhs, ops)
       ELSE IF node.k = "undef" THEN Throw(TypeError)
       ELSE IF node.type = "op" /\ \E o \in ops : node.str = <<o>>
         THEN LET lhs == process_operators(Arr(SubSeq(items, 1, i - 1)), ops)
              IN  IF IsThrow(lhs) THEN lhs
                  ELSE Arr(<<lhs, node, Arr(rhs)>>)
       ELSE ProcessLoop(items, i - 1, <<node>> \o rhs, ops)

RECURSIVE ProcessLoopLeftmost(_, _, _, _)
\* ProcessLoop scanning first to last, so that it splits at the leftmost
\* connective of ops
ProcessLoopLeftmost(items, i, lhs, ops) ==
  IF i > Len(items) THEN Arr(lhs)
  ELSE LET node == items[i] IN
       IF IsArray(node)
         THEN LET sub == process_operators(node, ops)
              IN  IF IsThrow(sub) THEN sub
                  ELSE ProcessLoopLeftmost(items, i + 1, Append(lhs, sub), ops)
       ELSE IF node.k = "undef" THEN Throw(TypeError)
       ELSE IF node.type = "op" /\ \E o \in ops : node.str = <<o>>
         THEN LET rhs == process_operators(Arr(SubSeq(items, i + 1, Len(items))), ops)
              IN  IF IsThrow(rhs) THEN rhs
                  ELSE Arr(<<Arr(lhs), node, rhs>>)
       ELSE ProcessLoopLeftmost(items, i + 1, Append(lhs, node), ops)

process_operators_leftmost(t, ops) == ProcessLoopLeftmost(t.items, 1, <<>>, ops)

process_operators(t, ops) == ProcessLoop(t.items, Len(t.items), <<>>, ops)

\* PASSES with the calls for OR and AND in the other order
PASSES_AndBeforeOr == << {IFF}, {CONVERSE, IMPLIES}, {AND}, {OR} >>

\* the four calls of parse, in order
PASSES == << {IFF}, {CONVERSE, IMPLIES}, {OR}, {AND} >>

(***************************************************************************)
(* reformat                                                                *)
(***************************************************************************)
Leaf(name) == [k |-> "leaf", name |-> name]
Node(op, args) == [k |-> "node", op |-> op, args |-> args]

\* BareOp taking an empty group for a bare operator too
BareOpOrEmpty(v) == IF IsArray(v) THEN v.items = <<>> ELSE v.type = "op"

\* !Array.isArray(v) && v.type == 'op': throws on undefined
BareOp(v) == ~IsArray(v) /\ v.type = "op"

RECURSIVE reformat(_)
\* the AST reformat returns, or the exception it throws
reformat(t) ==
  IF t.k = "undef" THEN Throw(TypeError)
  ELSE IF ~IsArray(t)
    THEN IF t.type = "str" THEN Leaf(t.str)
         ELSE Throw("operator has no operand")
  ELSE LET n == Len(t.items) IN
  IF n = 0 THEN Throw("empty expression")
  ELSE IF n = 1
    THEN IF IsArray(t.items[1]) THEN reformat(t.items[1])
         ELSE IF t.items[1].k = "undef" THEN Throw(TypeError)
         ELSE IF t.items[1].type = "str" THEN Leaf(t.items[1].str)
         ELSE Throw("operator has no operand")
  ELSE IF n = 2
    THEN IF IsArray(t.items[1]) THEN Throw("malformed unary operator")
         ELSE IF t.items[1].k = "undef" THEN Throw(TypeError)
         ELSE IF t.items[1].type # "op" THEN Throw("malformed unary operator")
         ELSE IF t.items[2].k = "undef" THEN Throw(TypeError)
         ELSE IF BareOp(t.items[2]) THEN Throw("malformed unary operator")
         ELSE LET a == reformat(t.items[2])
              IN  IF IsThrow(a) THEN a
                  ELSE Node(t.items[1].str, <<a>>)
  ELSE IF n = 3
    THEN IF IsArray(t.items[2]) THEN Throw("malformed binary operator")
         ELSE IF t.items[2].k = "undef" THEN Throw(TypeError)
         ELSE IF t.items[2].type # "op" THEN Throw("malformed binary operator")
         ELSE IF t.items[1].k = "undef" THEN Throw(TypeError)
         ELSE IF BareOp(t.items[1]) THEN Throw("malformed binary operator")
         ELSE IF t.items[3].k = "undef" THEN Throw(TypeError)
         ELSE IF BareOp(t.items[3]) THEN Throw("malformed binary operator")
         ELSE LET a == reformat(t.items[1])
                  b == IF IsThrow(a) THEN a ELSE reformat(t.items[3])
              IN  IF IsThrow(a) THEN a
                  ELSE IF IsThrow(b) THEN b
                  ELSE Node(t.items[2].str, <<a, b>>)
  ELSE Throw("malformed expression")

(***************************************************************************)
(* parse                                                                   *)
(***************************************************************************)
RECURSIVE ProcessPasses(_, _)
\* the calls of process_operators from pass i on
ProcessPasses(t, i) ==
  IF i > Len(PASSES) \/ IsThrow(t) THEN t
  ELSE ProcessPasses(process_operators(t, PASSES[i]), i + 1)

\* the AST parse returns, or the exception that rejects its promise
parse(input) ==
  LET grouped == split_by_parens(tokenise(input))
  IN  IF IsThrow(grouped) THEN grouped
      ELSE LET split == ProcessPasses(combine_unary(grouped), 1)
           IN  IF IsThrow(split) THEN split ELSE reformat(split)

(***************************************************************************)
(* evaluate                                                                *)
(***************************************************************************)
\* The JavaScript values evaluate handles: the two booleans, and the values
\* every object inherits from Object.prototype, which are functions except
\* for __proto__, an accessor that reads as Object.prototype itself.
JsTrue == "true"
JsFalse == "false"
JsBool(b) == IF b THEN JsTrue ELSE JsFalse
Truthy(v) == v # JsFalse

PROTO == <<"_", "_", "p", "r", "o", "t", "o", "_", "_">>

\* the names of the function-valued properties of Object.prototype (those
\* of the language standard proper)
ProtoFunctionKeys ==
  { <<"c", "o", "n", "s", "t", "r", "u", "c", "t", "o", "r">>,
    <<"t", "o", "S", "t", "r", "i", "n", "g">>,
    <<"t", "o", "L", "o", "c", "a", "l", "e", "S", "t", "r", "i", "n", "g">>,
    <<"v", "a", "l", "u", "e", "O", "f">>,
    <<"h", "a", "s", "O", "w", "n", "P", "r", "o", "p", "e", "r", "t", "y">>,
    <<"i", "s", "P", "r", "o", "t", "o", "t", "y", "p", "e", "O", "f">>,
    <<"p", "r", "o", "p", "e", "r", "t", "y", "I", "s", "E", "n", "u", "m", "e", "r", "a", "b", "l", "e">> }

ObjectPrototypeKeys == ProtoFunctionKeys \cup {PROTO}

InheritedValue(name) ==
  IF name = PROTO THEN "[Object: null prototype] {}" ELSE "[Function]"

\* A context is the function from its own property names to their values.
\* ast in ctx: the in operator also finds inherited properties
In(name, c) == name \in DOMAIN c \/ name \in ObjectPrototypeKeys

\* ctx[ast]
Get(c, name) == IF name \in DOMAIN c THEN c[name] ELSE InheritedValue(name)

\* context[sym] = input: assigning a boolean to __proto__ runs the inherited
\* setter, which ignores it and creates no own property
Set(c, name, v) ==
  IF name = PROTO THEN c
  ELSE [n \in DOMAIN c \cup {name} |-> IF n = name THEN v ELSE c[n]]

\* a == b on these values: a boolean never equals an object, and an object
\* equals only itself
LooseEq(a, b) == a = b

RECURSIVE evaluate(_, _)
evaluate(t, c) ==
  IF t.k = "node"
    THEN LET a == evaluate(t.args[1], c)
             b == evaluate(t.args[2], c)
         IN  CASE t.op = <<OR>> -> IF Truthy(a) THEN a ELSE b
               [] t.op = <<AND>> -> IF Truthy(a) THEN b ELSE a
               [] t.op = <<NOT>> -> JsBool(~Truthy(a))
               [] t.op = <<IMPLIES>> -> IF ~Truthy(a) THEN JsTrue ELSE b
               [] t.op = <<IFF>> -> JsBool(LooseEq(a, b))
               [] t.op = <<CONVERSE>> -> IF ~Truthy(b) THEN JsTrue ELSE a
               [] OTHER -> JsFalse
    ELSE IF In(t.name, c) THEN Get(c, t.name)
         ELSE IF t.name = <<"1">> THEN JsTrue
         ELSE JsFalse

(***************************************************************************)
(* create_truth_table                                                      *)
(***************************************************************************)
RECURSIVE FlatMap(_, _)
RECURSIVE find_symbols(_)
\* ast.args.flatMap((a) => find_symbols(a)), from argument i on
FlatMap(args, i) ==
  IF i > Len(args) THEN <<>>
  ELSE find_symbols(args[i]) \o FlatMap(args, i + 1)

find_symbols(t) ==
  IF t.k = "node" THEN FlatMap(t.args, 1)
  ELSE IF t.name # <<"1">> /\ t.name # <<"0">> THEN <<t.name>>
  ELSE <<>>

\* arr.indexOf(sym), 1-based
IndexOf(arr, sym) == CHOOSE i \in 1..Len(arr) :
                       /\ arr[i] = sym
                       /\ \A j \in 1..(i - 1) : arr[j] # sym

RECURSIVE FilterFirst(_, _)
\* arr.filter((sym, i, arr) => arr.indexOf(sym) == i), from element i on
FilterFirst(arr, i) ==
  IF i > Len(arr) THEN <<>>
  ELSE (IF IndexOf(arr, arr[i]) = i THEN <<arr[i]>> ELSE <<>>)
         \o FilterFirst(arr, i + 1)

\* (i & (1 << bit)) != 0, bit counted from 0
BitSet(i, bit) == (i \div (2 ^ bit)) % 2 = 1

RECURSIVE BuildContext(_, _, _, _)
\* symbols.forEach((sym, bit) => { context[sym] = input; ... }), from symbol j on
BuildContext(symbols, i, j, c) ==
  IF j > Len(symbols) THEN c
  ELSE BuildContext(symbols, i, j + 1,
                    Set(c, symbols[j], JsBool(BitSet(i, j - 1))))

EmptyContext == [n \in {} |-> JsFalse]

\* the row body.push adds for counter i
TableRow(t, symbols, i) ==
  [inputs |-> [j \in 1..Len(symbols) |-> JsBool(BitSet(i, j - 1))],
   output |-> evaluate(t, BuildContext(symbols, i, 1, EmptyContext))]

\* the largest number of symbols a table is made for
MAX_SYMBOLS == 4

create_truth_table(t) ==
  LET symbols == FilterFirst(find_symbols(t), 1) IN
  IF Len(symbols) = 0
    THEN [inputs |-> <<>>,
          body |-> << [inputs |-> <<>>, output |-> evaluate(t, EmptyContext)] >>]
  ELSE IF Len(symbols) <= MAX_SYMBOLS
    THEN [inputs |-> symbols,
          body |-> [r \in 1..(2 ^ Len(symbols)) |-> TableRow(t, symbols, r - 1)]]
  ELSE [inputs |-> <<>>, body |-> <<>>]

(***************************************************************************)
(* The inputs of the model                                                 *)
(***************************************************************************)
\* the longest text of ShortTexts
MaxLen == 4

ShortAlphabet == {"a", "1", " ", NOT, AND, OPEN, CLOSE}

\* every text over ShortAlphabet of at most MaxLen characters
ShortTexts == UNION { [1..n -> ShortAlphabet] : n \in 0..MaxLen }

BinaryOps == {AND, OR, IMPLIES, CONVERSE, IFF}

\* A chain is three operands x1, x2, x3 (the atoms a, b, c, each negated or
\* not) joined by two binary connectives.
Chains == [n1 : BOOLEAN, n2 : BOOLEAN, n3 : BOOLEAN, op1 : BinaryOps, op2 : BinaryOps]

Operand(negated, atom) == IF negated THEN <<NOT, atom>> ELSE <<atom>>
X1(f) == Operand(f.n1, "a")
X2(f) == Operand(f.n2, "b")
X3(f) == Operand(f.n3, "c")

\* x1 op1 x2
Pair(f) == X1(f) \o <<f.op1>> \o X2(f)
\* x1 op1 x2 op2 x3
Flat(f) == X1(f) \o <<f.op1>> \o X2(f) \o <<f.op2>> \o X3(f)
\* (x1 op1 x2) op2 x3
ParenLeft(f) == <<OPEN>> \o X1(f) \o <<f.op1>> \o X2(f) \o <<CLOSE, f.op2>> \o X3(f)
\* x1 op1 (x2 op2 x3)
ParenRight(f) == X1(f) \o <<f.op1, OPEN>> \o X2(f) \o <<f.op2>> \o X3(f) \o <<CLOSE>>
\* NOT (x1 op1 x2) op2 x3
NotParenLeft(f) == <<NOT>> \o ParenLeft(f)
\* x1 op1 NOT (x2 op2 x3)
NotParenRight(f) ==
  X1(f) \o <<f.op1, NOT, OPEN>> \o X2(f) \o <<f.op2>> \o X3(f) \o <<CLOSE>>

ChainTexts ==
  UNION { {Pair(f), Flat(f), ParenLeft(f), ParenRight(f), NotParenLeft(f),
           NotParenRight(f)} : f \in Chains }

RECURSIVE MixedCase(_)
\* every spelling of the word w in upper and lower case letters
MixedCase(w) ==
  IF w = <<>> THEN { <<>> }
  ELSE { <<c>> \o rest : c \in {w[1], UpperChar(w[1])}, rest \in MixedCase(Tail(w)) }

\* <<spelling, glyph>>: every alias in every letter case, and the glyph itself
Spellings ==
  UNION { { <<s, p[2]>> : s \in MixedCase(p[1]) } : p \in EXTRA_OPERATORS }
    \cup { << <<g>>, g >> : g \in BinaryOps \cup {NOT} }

\* the operand pairs of the alias texts
OperandPairs == { << <<"a">>, <<"b">> >>, << <<"A">>, <<"B">> >> }

\* <<the text "x1 w x2" (or "w x1" for NOT), the text with the glyph for w>>
AliasPairs ==
  { IF sp[2] = NOT
      THEN << sp[1] \o <<" ">> \o o[1], <<NOT, " ">> \o o[1] >>
      ELSE << o[1] \o <<" ">> \o sp[1] \o <<" ">> \o o[2],
              o[1] \o <<" ", sp[2], " ">> \o o[2] >> :
    sp \in Spellings, o \in OperandPairs }

AliasTexts == { p[1] : p \in AliasPairs }

\* a binary connective with no left operand: "op x"
NoLeftOperandTexts ==
  { <<op>> \o Operand(n, "a") : op \in BinaryOps, n \in BOOLEAN }

\* the most distinct symbols of a formula of SymbolTexts
NumSymbols == 5

SymbolNames == <<"a", "b", "c", "d", "e", "f", "g", "h">>

RECURSIVE Join(_, _, _)
\* the first n symbols joined by the connective op
Join(n, op, acc) ==
  IF n = 0 THEN acc
  ELSE Join(n - 1, op, IF acc = <<>> THEN <<SymbolNames[n]>>
                       ELSE <<SymbolNames[n], op>> \o acc)

\* formulas of 1..NumSymbols distinct symbols, formulas of constants and of
\* repeated symbols, a group of four operands, and the identifiers that name
\* a property every object inherits
SymbolTexts ==
  { Join(n, op, <<>>) : n \in 1..NumSymbols, op \in {AND, OR} }
    \cup { <<"1", OR, "0">>, <<"0">>, <<"b", AND, "a", OR, "b">>,
           <<"a", IFF, "1", AND, "b", CONVERSE, "a">>,
           <<"a", " ", "b", " ", "c", " ", "d">> }
    \cup ObjectPrototypeKeys
    \cup { <<NOT>> \o key : key \in ObjectPrototypeKeys }

Inputs == ShortTexts \cup ChainTexts \cup AliasTexts \cup NoLeftOperandTexts
            \cup SymbolTexts

\* the assignments evaluate is called with: every map from some of these
\* names to booleans
ContextNames == { <<"a">>, <<"b">>, <<"1">> }

Contexts == UNION { [D -> {JsTrue, JsFalse}] : D \in SUBSET ContextNames }

(***************************************************************************)
(* The state machine: one call of parse, run statement by statement, and   *)
(* then one call of evaluate or create_truth_table on the AST it returned  *)
(***************************************************************************)
None == [k |-> "none"]

Init ==
  /\ text \in Inputs
  /\ pc = "tokenise"
  /\ pos = 1
  /\ tokens = <<>>
  /\ tree = Arr(<<>>)
  /\ depth = 0
  /\ pass = 1
  /\ error = ""
  /\ ast = None
  /\ ctx = EmptyContext
  /\ value = ""
  /\ table = None

\* tokenise: one iteration of for (const char of input)
TokeniseChar ==
  /\ pc = "tokenise"
  /\ pos <= Len(text)
  /\ tokens' = TokeniseStep(tokens, text[pos])
  /\ pos' = pos + 1
  /\ UNCHANGED <<text, pc, tree, depth, pass, error, ast, ctx, value, table>>

\* tokenise: the return statement; split_by_parens starts
TokeniseReturn ==
  /\ pc = "tokenise"
  /\ pos > Len(text)
  /\ tokens' = TokeniseReturnValue(tokens)
  /\ pc' = "split"
  /\ pos' = 1
  /\ tree' = Arr(<<>>)
  /\ depth' = 0
  /\ UNCHANGED <<text, pass, error, ast, ctx, value, table>>

\* split_by_parens: one call of the forEach callback
SplitToken ==
  /\ pc = "split"
  /\ pos <= Len(tokens)
  /\ LET r == SplitStep(tree, depth, tokens[pos])
     IN  IF "k" \in DOMAIN r
           THEN /\ pc' = "failed"
                /\ error' = r.msg
                /\ UNCHANGED <<tree, depth, pos>>
           ELSE /\ tree' = r.tree
                /\ depth' = r.depth
                /\ pos' = pos + 1
                /\ UNCHANGED <<pc, error>>
  /\ UNCHANGED <<text, tokens, pass, ast, ctx, value, table>>

\* split_by_parens: return tree
SplitReturn ==
  /\ pc = "split"
  /\ pos > Len(tokens)
  /\ pc' = "unary"
  /\ UNCHANGED <<text, pos, tokens, tree, depth, pass, error, ast, ctx, value, table>>

\* tree = combine_unary(tree)
CombineUnary ==
  /\ pc = "unary"
  /\ tree' = combine_unary(tree)
  /\ pc' = "ops"
  /\ pass' = 1
  /\ UNCHANGED <<text, pos, tokens, depth, error, ast, ctx, value, table>>

\* tree = process_operators(tree, [...]): the next of the four calls
ProcessOperators ==
  /\ pc = "ops"
  /\ LET r == process_operators(tree, PASSES[pass])
     IN  IF IsThrow(r)
           THEN /\ pc' = "failed"
                /\ error' = r.msg
                /\ UNCHANGED <<tree, pass>>
           ELSE /\ tree' = r
                /\ pass' = pass + 1
                /\ pc' = IF pass = Len(PASSES) THEN "reformat" ELSE "ops"
                /\ UNCHANGED error
  /\ UNCHANGED <<text, pos, tokens, depth, ast, ctx, value, table>>

\* return reformat(tree)
Reformat ==
  /\ pc = "reformat"
  /\ LET r == reformat(tree)
     IN  IF IsThrow(r)
           THEN /\ pc' = "failed"
                /\ error' = r.msg
                /\ UNCHANGED ast
           ELSE /\ pc' = "parsed"
                /\ ast' = r
                /\ UNCHANGED error
  /\ UNCHANGED <<text, pos, tokens, tree, depth, pass, ctx, value, table>>

\* evaluate(ast, c) on the AST parse returned
Evaluate ==
  /\ pc = "parsed"
  /\ \E c \in Contexts :
       /\ ctx' = c
       /\ value' = evaluate(ast, c)
  /\ pc' = "evaluated"
  /\ UNCHANGED <<text, pos, tokens, tree, depth, pass, error, ast, table>>

\* create_truth_table(ast) on the AST parse returned
CreateTruthTable ==
  /\ pc = "parsed"
  /\ table' = create_truth_table(ast)
  /\ pc' = "tabled"
  /\ UNCHANGED <<text, pos, tokens, tree, depth, pass, error, ast, ctx, value>>

Next ==
  \/ TokeniseChar
  \/ TokeniseReturn
  \/ SplitToken
  \/ SplitReturn
  \/ CombineUnary
  \/ ProcessOperators
  \/ Reformat
  \/ Evaluate
  \/ CreateTruthTable

Spec == Init /\ [][Next]_vars

(***************************************************************************)
(* What the specification says, in its own terms                           *)
(***************************************************************************)
\* the precedence ladder: a larger number binds tighter
Prec(op) ==
  CASE op = AND -> 4
    [] op = OR -> 3
    [] op \in {IMPLIES, CONVERSE} -> 2
    [] op = IFF -> 1

\* the AST of an operand of a chain
OperandAST(negated, atom) ==
  IF negated THEN Node(<<NOT>>, <<Leaf(<<atom>>)>>) ELSE Leaf(<<atom>>)
T1(f) == OperandAST(f.n1, "a")
T2(f) == OperandAST(f.n2, "b")
T3(f) == OperandAST(f.n3, "c")

\* op1(x1, x2)
PairAST(f) == Node(<<f.op1>>, <<T1(f), T2(f)>>)
\* op2(op1(x1, x2), x3)
LeftAST(f) == Node(<<f.op2>>, << Node(<<f.op1>>, <<T1(f), T2(f)>>), T3(f) >>)
\* op1(x1, op2(x2, x3))
RightAST(f) == Node(<<f.op1>>, << T1(f), Node(<<f.op2>>, <<T2(f), T3(f)>>) >>)
\* op2(NOT(op1(x1, x2)), x3)
NotLeftAST(f) ==
  Node(<<f.op2>>, << Node(<<NOT>>, << Node(<<f.op1>>, <<T1(f), T2(f)>>) >>), T3(f) >>)
\* op1(x1, NOT(op2(x2, x3)))
NotRightAST(f) ==
  Node(<<f.op1>>, << T1(f), Node(<<NOT>>, << Node(<<f.op2>>, <<T2(f), T3(f)>>) >>) >>)

Succeeded == pc \in {"parsed", "evaluated", "tabled"}

\* C1: in a chain x1 op1 x2 op2 x3 whose connectives are of different
\* precedence classes, the connective of the tighter class (AND over OR over
\* IMPLIES and CONVERSE-IMPLIES over IFF) groups first, NOT binds to its
\* operand alone (NOT a AND b is AND(NOT(a), b)), and the AST is that of the
\* same chain with the tighter sub-formula in parentheses; parentheses, also
\* after a NOT, group as written whatever the classes.
C1_Precedence ==
  /\ pc = "failed" => text \notin ChainTexts
  /\ pc = "parsed" =>
       \A f \in Chains :
         /\ text = Pair(f) => ast = PairAST(f)
         /\ (text = Flat(f) /\ Prec(f.op1) > Prec(f.op2)) =>
              (ast = LeftAST(f) /\ ast = parse(ParenLeft(f)))
         /\ (text = Flat(f) /\ Prec(f.op1) < Prec(f.op2)) =>
              (ast = RightAST(f) /\ ast = parse(ParenRight(f)))
         /\ text = ParenLeft(f) => ast = LeftAST(f)
         /\ text = ParenRight(f) => ast = RightAST(f)
         /\ text = NotParenLeft(f) => ast = NotLeftAST(f)
         /\ text = NotParenRight(f) => ast = NotRightAST(f)

\* parse("a OR b AND c") returned OR(a, AND(b, c))
C1_Witness ==
  /\ pc = "parsed"
  /\ text = <<"a", OR, "b", AND, "c">>
  /\ ast = Node(<<OR>>, << Leaf(<<"a">>), Node(<<AND>>, <<Leaf(<<"b">>), Leaf(<<"c">>)>>) >>)

\* C2: a chain x1 op1 x2 op2 x3 without parentheses whose connectives are of
\* one precedence class (IMPLIES and CONVERSE-IMPLIES mixed included) parses
\* to op2(op1(x1, x2), x3).
C2_LeftAssociative ==
  pc = "parsed" =>
    \A f \in Chains :
      (text = Flat(f) /\ Prec(f.op1) = Prec(f.op2)) => ast = LeftAST(f)

\* parse("a IMPLIES b CONVERSE-IMPLIES c") returned the left grouping
C2_Witness ==
  /\ pc = "parsed"
  /\ text = <<"a", IMPLIES, "b", CONVERSE, "c">>
  /\ ast = Node(<<CONVERSE>>,
                << Node(<<IMPLIES>>, <<Leaf(<<"a">>), Leaf(<<"b">>)>>), Leaf(<<"c">>) >>)

\* C3: split_by_parens never raises: parse never fails with its exception, and
\* the depth is not negative when a token that is no parenthesis is inserted.
C3_GrouperNeverRaises ==
  /\ ~(pc = "failed" /\ error = "cannot push with negative depth")
  /\ (pc = "split" /\ pos <= Len(tokens)
        /\ ~IsOp(tokens[pos], OPEN) /\ ~IsOp(tokens[pos], CLOSE)) => depth >= 0

\* the five messages of reformat
ReformatMessages ==
  { "empty expression", "operator has no operand", "malformed unary operator",
    "malformed binary operator", "malformed expression" }

\* C4: once split_by_parens has returned, combine_unary and the four calls
\* of process_operators complete without raising, so a failure of parse
\* carries one of the five messages of reformat.
C4_OnlyReformatRaises ==
  (pc = "failed" /\ pos > Len(tokens)) => error \in ReformatMessages

RECURSIVE Sem(_, _)
\* the truth value of an AST under an assignment, as the specification
\* defines it
Sem(t, asg) ==
  IF t.k = "leaf"
    THEN IF t.name \in DOMAIN asg THEN asg[t.name] = JsTrue
         ELSE t.name = <<"1">>
  ELSE CASE t.op = <<NOT>> -> ~Sem(t.args[1], asg)
         [] t.op = <<AND>> -> Sem(t.args[1], asg) /\ Sem(t.args[2], asg)
         [] t.op = <<OR>> -> Sem(t.args[1], asg) \/ Sem(t.args[2], asg)
         [] t.op = <<IMPLIES>> -> Sem(t.args[1], asg) => Sem(t.args[2], asg)
         [] t.op = <<CONVERSE>> -> Sem(t.args[2], asg) => Sem(t.args[1], asg)
         [] t.op = <<IFF>> -> Sem(t.args[1], asg) <=> Sem(t.args[2], asg)

\* C5: evaluate returns a boolean on every AST parse returns: the assigned
\* value of a bound leaf, true for the unbound leaf "1", false for every
\* other unbound leaf, and the truth function of the connective at a node.
C5_EvaluateSemantics ==
  pc = "evaluated" => value = JsBool(Sem(ast, ctx))

RECURSIVE Leaves(_)
\* the leaf names of an AST, left to right
Leaves(t) ==
  IF t.k = "leaf" THEN <<t.name>>
  ELSE IF Len(t.args) = 1 THEN Leaves(t.args[1])
  ELSE Leaves(t.args[1]) \o Leaves(t.args[2])

\* the position of the first occurrence of name among the leaves
FirstLeaf(t, name) ==
  CHOOSE i \in 1..Len(Leaves(t)) :
    /\ Leaves(t)[i] = name
    /\ \A j \in 1..(i - 1) : Leaves(t)[j] # name

FreeNames(t) ==
  { Leaves(t)[i] : i \in 1..Len(Leaves(t)) } \ { <<"1">>, <<"0">> }

\* syms lists the free symbols of t once each, in first-occurrence order
IsSymbolList(t, syms) ==
  /\ { syms[i] : i \in 1..Len(syms) } = FreeNames(t)
  /\ \A i, j \in 1..Len(syms) : i < j => FirstLeaf(t, syms[i]) < FirstLeaf(t, syms[j])

\* the assignment of row i: symbol j takes bit j of i, symbol 1 the least
RowAssignment(syms, i) ==
  [name \in { syms[j] : j \in 1..Len(syms) } |->
     JsBool(BitSet(i, (CHOOSE j \in 1..Len(syms) : syms[j] = name) - 1))]

\* C6: the table of an AST with n distinct free symbols: for n = 0 an empty
\* header and one row without inputs holding the constant result; for
\* 1 <= n <= 4 the symbols in first-occurrence order as header and 2^n rows
\* in counter order, row i with input j = bit j of i and the formula's value
\* under that assignment as output; for n > 4 an empty header and no rows.
C6_TruthTable ==
  pc = "tabled" =>
    LET n == Cardinality(FreeNames(ast)) IN
    IF n = 0
      THEN table = [inputs |-> <<>>,
                    body |-> << [inputs |-> <<>>,
                                 output |-> JsBool(Sem(ast, EmptyContext))] >>]
    ELSE IF n <= 4
      THEN /\ Len(table.inputs) = n
           /\ IsSymbolList(ast, table.inputs)
           /\ Len(table.body) = 2 ^ n
           /\ \A i \in 0..(2 ^ n - 1) :
                /\ table.body[i + 1].inputs =
                     [j \in 1..n |-> JsBool(BitSet(i, j - 1))]
                /\ table.body[i + 1].output =
                     JsBool(Sem(ast, RowAssignment(table.inputs, i)))
    ELSE table = [inputs |-> <<>>, body |-> <<>>]

\* no leaf of the AST is named like a property inherited from
\* Object.prototype
RegularNames ==
  \A i \in 1..Len(Leaves(ast)) : Leaves(ast)[i] \notin ObjectPrototypeKeys

\* what holds of evaluate: the semantics of C5 on the ASTs with regular names
EvaluateSemanticsOnRegularNames ==
  (pc = "evaluated" /\ RegularNames) => value = JsBool(Sem(ast, ctx))

\* what holds of create_truth_table: the table of C6 unless __proto__ is a
\* symbol of the AST
TruthTableWithoutProto ==
  (pc = "tabled" /\ \A i \in 1..Len(Leaves(ast)) : Leaves(ast)[i] # PROTO) =>
    C6_TruthTable

\* the texts of the alias example
AliasExample ==
  { <<"a", " ", "a", "n", "d", " ", "b">>, <<"a", " ", AND, " ", "b">>,
    <<"A", " ", "A", "N", "D", " ", "B">> }

\* C7 as stated: parse("a and b"), parse("a AND-glyph b") and parse("A AND B")
\* evaluate identically under every assignment.
C7_AliasExample ==
  (pc = "parsed" /\ text \in AliasExample) =>
    \A c \in Contexts :
      evaluate(ast, c) = evaluate(parse(<<"a", " ", AND, " ", "b">>), c)

\* C7, amended: a text "x1 w x2" (or "w x1" for NOT), where w spells an alias
\* of a connective in any letter case, parses to the AST of the same text
\* with the connective's glyph for w, operands unchanged, and so evaluates
\* as it does under every assignment.
C7_AliasEquivalence ==
  /\ pc = "failed" => text \notin AliasTexts
  /\ pc = "parsed" =>
       \A p \in AliasPairs :
         text = p[1] =>
           /\ ast = parse(p[2])
           /\ \A c \in Contexts : evaluate(ast, c) = evaluate(parse(p[2]), c)

\* parse("a AND b") returned AND(a, b)
C7_Witness ==
  /\ pc = "parsed"
  /\ text = <<"a", " ", "A", "N", "D", " ", "b">>
  /\ ast = Node(<<AND>>, <<Leaf(<<"a">>), Leaf(<<"b">>)>>)

\* C8 as stated: parse of a binary connective without a left operand fails
\* with "malformed binary operator".
C8_MalformedBinary ==
  text \in NoLeftOperandTexts =>
    /\ ~Succeeded
    /\ pc = "failed" => error = "malformed binary operator"

\* C8, amended: parse of "op x", a binary connective without a left operand,
\* fails with "empty expression".
C8_EmptyExpression ==
  text \in NoLeftOperandTexts =>
    /\ ~Succeeded
    /\ pc = "failed" => error = "empty expression"

\* parse("AND a") failed with "empty expression"
C8_Witness ==
  /\ text = <<AND, "a">>
  /\ pc = "failed"
  /\ error = "empty expression"

RECURSIVE ArityOK(_)
\* every node of the AST has the number of operands of its connective
ArityOK(t) ==
  IF t.k = "leaf" THEN TRUE
  ELSE /\ \/ t.op = <<NOT>> /\ Len(t.args) = 1
          \/ (\E o \in BinaryOps : t.op = <<o>>) /\ Len(t.args) = 2
       /\ \A i \in 1..Len(t.args) : ArityOK(t.args[i])

\* C9: in every AST parse returns, a NOT node has one operand, a node of a
\* binary connective has two, and no node has a parenthesis as its operator.
C9_Arity == Succeeded => ArityOK(ast)

\* parse("NOT a AND 1") returned AND(NOT(a), 1)
C9_Witness ==
  /\ pc = "parsed"
  /\ text = <<NOT, "a", AND, "1">>
  /\ ast = Node(<<AND>>, << Node(<<NOT>>, <<Leaf(<<"a">>)>>), Leaf(<<"1">>) >>)

\* no two adjacent tokens of toks are both of this type
NoAdjacent(toks, type) ==
  \A i \in 1..(Len(toks) - 1) : ~(toks[i].type = type /\ toks[i + 1].type = type)

NoSpaceToken(toks) == \A i \in 1..Len(toks) : toks[i].type # "sp"

\* C10 as stated: in the sequence tokenise returns no two adjacent tokens are
\* both identifiers and there is no whitespace token.
C10_NoAdjacentIdentifiers ==
  pc # "tokenise" => (NoAdjacent(tokens, "str") /\ NoSpaceToken(tokens))

\* C10, amended: the sequence tokenise returns holds no whitespace token, and
\* two adjacent identifiers only if the input holds whitespace; in the list
\* tokenise builds, before the whitespace tokens are filtered out, no two
\* adjacent tokens are both identifiers and no two both whitespace.
C10_Tokens ==
  /\ pc = "tokenise" => (NoAdjacent(tokens, "str") /\ NoAdjacent(tokens, "sp"))
  /\ pc # "tokenise" => NoSpaceToken(tokens)
  /\ (pc # "tokenise" /\ \A i \in 1..Len(text) : text[i] \notin Whitespace) =>
       NoAdjacent(tokens, "str")

\* tokenise("a a") returned two adjacent identifiers
C10_Witness ==
  /\ pc = "split"
  /\ text = <<"a", " ", "a">>
  /\ tokens = << Tok("str", <<"a">>), Tok("str", <<"a">>) >>

=============================================================================
